---- MODULE Spec2Model ----
(***************************************************************************)
(* Calculation-type classifiers of emmet-core: run_type, task_type and     *)
(* calc_type of emmet.core.vasp.calc_types and of                          *)
(* emmet.core.cp2k.calc_types.utils.                                       *)
(*                                                                         *)
(* The classifiers are pure functions of their argument and of the rule    *)
(* table loaded at import time.  A state holds one rule table per package, *)
(* one argument per function, and the outcome of the last call.            *)
(*                                                                         *)
(* Python values are tagged pairs <<type, payload>>; Python strings are    *)
(* TLA+ strings, taken apart with Head/Tail/Len; dicts are functions from  *)
(* the keys present to values.                                             *)
(***************************************************************************)
EXTENDS Integers, Sequences, FiniteSets, TLC

VARIABLES
    run_type_data,       \* vasp/calc_types.py: _RUN_TYPE_DATA (run_types.yaml)
    parameters,          \* argument of the VASP run_type
    inputs,              \* argument of the VASP task_type
    cp2k_run_type_data,  \* cp2k/calc_types/utils.py: _RUN_TYPE_DATA
    dft,                 \* argument of the CP2K run_type / task_type / calc_type
    call,                \* the function called last, "none" before the call
    result               \* what the call returned or raised

vars == <<run_type_data, parameters, inputs, cp2k_run_type_data, dft, call, result>>

(***************************************************************************)
(* Bounds of the model.                                                    *)
(***************************************************************************)
\* most rules (special types) a rule table holds, over all its classes
MaxRules == 2
\* longest k-point label list
MaxKptLabels == 2

(***************************************************************************)
(* Python values.                                                          *)
(***************************************************************************)
None == <<"NoneType", "None">>
PyBool(b) == <<"bool", b>>
PyInt(n) == <<"int", n>>
PyStr(s) == <<"str", s>>
PyList(l) == <<"list", l>>
PyDict(d) == <<"dict", d>>

TypeOf(v) == v[1]
Val(v) == v[2]

EmptyDict == <<>>

\* dict.get(key, default)
Get(d, key, default) == IF key \in DOMAIN d THEN d[key] ELSE default

\* bool is a subclass of int: True is 1 and False is 0 in == and in >
IsNumber(v) == TypeOf(v) \in {"bool", "int"}
Num(v) == IF TypeOf(v) = "bool" THEN (IF Val(v) THEN 1 ELSE 0) ELSE Val(v)

\* truth value of an object in `if x`, `x or y`
Truthy(v) ==
    CASE TypeOf(v) = "NoneType" -> FALSE
      [] TypeOf(v) = "bool" -> Val(v)
      [] TypeOf(v) = "int" -> Val(v) # 0
      [] TypeOf(v) = "str" -> Len(Val(v)) > 0
      [] TypeOf(v) = "list" -> Len(Val(v)) > 0
      [] TypeOf(v) = "dict" -> DOMAIN Val(v) # {}

RECURSIVE ListEq(_, _)
\* v1 == v2
PyEq(v1, v2) ==
    IF IsNumber(v1) /\ IsNumber(v2) THEN Num(v1) = Num(v2)
    ELSE IF TypeOf(v1) # TypeOf(v2) THEN FALSE
    ELSE IF TypeOf(v1) = "list" THEN ListEq(Val(v1), Val(v2))
    ELSE Val(v1) = Val(v2)
ListEq(l1, l2) ==
    /\ Len(l1) = Len(l2)
    /\ \A i \in 1..Len(l1) : PyEq(l1[i], l2[i])

(***************************************************************************)
(* Python strings: str.upper, str.strip, str.split, str.join, str.replace. *)
(***************************************************************************)
LowerCase == <<"a", "b", "c", "d", "e", "f", "g", "h", "i", "j", "k", "l", "m",
               "n", "o", "p", "q", "r", "s", "t", "u", "v", "w", "x", "y", "z">>
UpperCase == <<"A", "B", "C", "D", "E", "F", "G", "H", "I", "J", "K", "L", "M",
               "N", "O", "P", "Q", "R", "S", "T", "U", "V", "W", "X", "Y", "Z">>
Whitespace == {" ", "\t", "\n"}

UpperChar(c) ==
    IF \E i \in 1..Len(LowerCase) : LowerCase[i] = c
    THEN UpperCase[CHOOSE i \in 1..Len(LowerCase) : LowerCase[i] = c]
    ELSE c

RECURSIVE Upper(_)
Upper(s) == IF Len(s) = 0 THEN "" ELSE UpperChar(Head(s)) \o Upper(Tail(s))

RECURSIVE LStrip(_)
LStrip(s) ==
    IF Len(s) > 0 /\ Head(s) \in Whitespace THEN LStrip(Tail(s)) ELSE s

RECURSIVE RStrip(_)
RStrip(s) ==
    IF Len(s) > 0 /\ SubSeq(s, Len(s), Len(s)) \in Whitespace
    THEN RStrip(SubSeq(s, 1, Len(s) - 1))
    ELSE s

Strip(s) == RStrip(LStrip(s))

RECURSIVE SplitFrom(_, _)
\* the words of s, cur being the word read so far
SplitFrom(s, cur) ==
    IF Len(s) = 0 THEN (IF cur = "" THEN <<>> ELSE <<cur>>)
    ELSE IF Head(s) \in Whitespace
         THEN (IF cur = "" THEN <<>> ELSE <<cur>>) \o SplitFrom(Tail(s), "")
         ELSE SplitFrom(Tail(s), cur \o Head(s))

\* s.split()
Split(s) == SplitFrom(s, "")

RECURSIVE Join(_, _)
\* sep.join(words)
Join(sep, words) ==
    IF Len(words) = 0 THEN ""
    ELSE IF Len(words) = 1 THEN words[1]
    ELSE words[1] \o sep \o Join(sep, Tail(words))

RECURSIVE Replace(_, _, _)
\* s.replace(old, new), old a single character
Replace(s, old, new) ==
    IF Len(s) = 0 THEN ""
    ELSE (IF Head(s) = old THEN new ELSE Head(s)) \o Replace(Tail(s), old, new)

(***************************************************************************)
(* Outcomes of a call, and enum.Enum.                                      *)
(***************************************************************************)
NoResult == [status |-> "none", type |-> "", name |-> "", value |-> ""]
Raise(exc) == [status |-> "raise", type |-> exc, name |-> "", value |-> ""]
ReturnNone == [status |-> "return", type |-> "NoneType", name |-> "", value |-> ""]
Member(cls, name, value) ==
    [status |-> "return", type |-> cls, name |-> name, value |-> value]

Raised(r) == r.status = "raise"
Returned(r) == r.status = "return"

\* Enum(cls, {names[i]: values[i] for i}), the dict filled in this order: a
\* later value under the same name replaces the earlier one, so the earlier
\* value is no member
IsMemberAt(names, values, i, v) ==
    /\ values[i] = v
    /\ \A j \in (i + 1)..Len(values) : names[j] = names[i] => values[j] = v

\* cls(v): the member whose value is v, ValueError when there is none
EnumCall(cls, names, values, v) ==
    LET at == {i \in 1..Len(values) : IsMemberAt(names, values, i, v)}
    IN IF at # {}
       THEN Member(cls, names[CHOOSE i \in at : \A k \in at : i <= k], v)
       ELSE Raise("ValueError")

\* the same for an enumeration known by its values alone
EnumCallByValue(cls, values, v) ==
    IF \E i \in 1..Len(values) : values[i] = v THEN Member(cls, "", v)
    ELSE Raise("ValueError")

\* format(member, "") of a plain Enum, which is str(member): "Class.NAME"
FormatMember(m) == m.type \o "." \o m.name

(***************************************************************************)
(* Ordered mappings (a dict read in insertion order, as yaml loads it):    *)
(* sequences of <<key, value>> with distinct keys.                         *)
(***************************************************************************)
Keys(od) == [i \in 1..Len(od) |-> od[i][1]]
Lookup(od, key) == od[CHOOSE i \in 1..Len(od) : od[i][1] = key][2]

RECURSIVE NestedKeysFrom(_, _)
\* [k for outer in od for k in od[outer]], from the i-th outer key on
NestedKeysFrom(od, i) ==
    IF i > Len(od) THEN <<>> ELSE Keys(od[i][2]) \o NestedKeysFrom(od, i + 1)

(***************************************************************************)
(* emmet.core.vasp.calc_types                                              *)
(***************************************************************************)
TASK_TYPES ==
    << "NSCF Line",
       "NSCF Uniform",
       "Dielectric",
       "DFPT",
       "DFPT Dielectric",
       "NMR Nuclear Shielding",
       "NMR Electric Field Gradient",
       "Static",
       "Structure Optimization",
       "Deformation" >>

RUN_TYPES ==
    LET rts == NestedKeysFrom(run_type_data, 1)
    IN rts \o [i \in 1..Len(rts) |-> rts[i] \o "+U"] \o <<"LDA", "LDA+U">>

\* "_".join(rt.split()).replace("+", "_")
RunTypeName(rt) == Replace(Join("_", Split(rt)), "+", "_")
\* "_".join(tt.split())
TaskTypeName(tt) == Join("_", Split(tt))

RunTypeNames == [i \in 1..Len(RUN_TYPES) |-> RunTypeName(RUN_TYPES[i])]
TaskTypeNames == [i \in 1..Len(TASK_TYPES) |-> TaskTypeName(TASK_TYPES[i])]

\* the RunType(...) and TaskType(...) calls
RunType(v) == EnumCall("RunType", RunTypeNames, RUN_TYPES, v)
TaskType(v) == EnumCall("TaskType", TaskTypeNames, TASK_TYPES, v)

\* CalcType: names and values over product(_RUN_TYPES, _TASK_TYPES), the run
\* type outermost
CalcTypeNames ==
    LET rts == RUN_TYPES
        nt == Len(TASK_TYPES)
    IN [k \in 1..(Len(rts) * nt) |->
            RunTypeName(rts[((k - 1) \div nt) + 1]) \o "_"
                \o TaskTypeName(TASK_TYPES[((k - 1) % nt) + 1])]
CalcTypeValues ==
    LET rts == RUN_TYPES
        nt == Len(TASK_TYPES)
    IN [k \in 1..(Len(rts) * nt) |->
            rts[((k - 1) \div nt) + 1] \o " " \o TASK_TYPES[((k - 1) % nt) + 1]]
CalcType(v) == EnumCall("CalcType", CalcTypeNames, CalcTypeValues, v)

\* (variant: the suffix is given whenever the LDAU key is present)
is_hubbard_if_present(params) == IF "LDAU" \in DOMAIN params THEN "+U" ELSE ""

is_hubbard(params) ==
    IF Truthy(Get(params, "LDAU", PyBool(FALSE))) THEN "+U" ELSE ""

variant_equal(v1, v2) ==
    IF TypeOf(v1) = "str" /\ TypeOf(v2) = "str"
    THEN Upper(Strip(Val(v1))) = Upper(Strip(Val(v2)))
    ELSE PyEq(v1, v2)

\* all([_variant_equal(parameters.get(param, None), value)
\*      for param, value in params.items()])
all_params_equal(params, given) ==
    \A param \in DOMAIN params :
        variant_equal(Get(given, param, None), params[param])

RECURSIVE first_special_type(_, _, _)
\* the inner loop: the first special type of `rules`, from the i-th on, whose
\* parameters all equal the given ones; <<>> when the loop ends
first_special_type(rules, given, i) ==
    IF i > Len(rules) THEN <<>>
    ELSE IF all_params_equal(rules[i][2], given) THEN <<rules[i][1]>>
    ELSE first_special_type(rules, given, i + 1)

\* (variant: the classes in the order of the file, as the CP2K loop reads them)
FunctionalClassesInFileOrder == <<"GGA", "HF", "METAGGA", "VDW">>

\* the order of evaluation run_type forces
FunctionalClasses == <<"HF", "VDW", "METAGGA", "GGA">>

RECURSIVE vasp_first_match(_, _)
\* the outer loop, from the j-th functional class on: <<class, special type>>
\* of the rule that returns, <<>> when both loops end
vasp_first_match(params, j) ==
    IF j > Len(FunctionalClasses) THEN <<>>
    ELSE LET functional_class == FunctionalClasses[j]
             hit == first_special_type(Lookup(run_type_data, functional_class), params, 1)
         IN IF hit # <<>> THEN <<functional_class, hit[1]>>
            ELSE vasp_first_match(params, j + 1)

\* (variant: the fallback without the suffix)
vasp_fallback_plain(params) == "LDA"

vasp_fallback(params) == "LDA" \o is_hubbard(params)

vasp_run_type(params) ==
    LET hit == vasp_first_match(params, 1)
    IN IF hit # <<>>
       THEN RunType(hit[2] \o is_hubbard(params))
       ELSE RunType(vasp_fallback(params))

\* kpts = inputs.get("kpoints") or {}
kpts_of(inp) ==
    LET k == Get(inp, "kpoints", None)
    IN IF Truthy(k) THEN k ELSE PyDict(EmptyDict)

\* kpt_labels = kpts.get("labels") or []
kpt_labels_of(kpts) ==
    LET l == Get(Val(kpts), "labels", None)
    IN IF Truthy(l) THEN l ELSE PyList(<<>>)

\* the try block fails when kpts has no .get or the labels cannot be listed
kpt_labels_fail(inp) ==
    \/ TypeOf(kpts_of(inp)) # "dict"
    \/ TypeOf(kpt_labels_of(kpts_of(inp))) # "list"

\* (variant: len(kpt_labels), the None entries counted too)
num_kpt_labels_all(inp) == Len(Val(kpt_labels_of(kpts_of(inp))))

\* len(list(filter(None.__ne__, kpt_labels)))
num_kpt_labels(inp) ==
    LET l == Val(kpt_labels_of(kpts_of(inp)))
    IN Cardinality({i \in 1..Len(l) : l[i] # None})

incar_of(inp) == Val(Get(inp, "incar", PyDict(EmptyDict)))

\* (variant: the NSW branch after the two relaxation branches)
vasp_task_labels_nsw_last(inp) ==
    LET incar == incar_of(inp)
        ibrion == Num(Get(incar, "IBRION", PyInt(0)))
    IN IF Num(Get(incar, "ICHARG", PyInt(0))) > 10
       THEN (IF num_kpt_labels(inp) > 0 THEN <<"NSCF Line">> ELSE <<"NSCF Uniform">>)
       ELSE IF Truthy(Get(incar, "LEPSILON", PyBool(FALSE)))
       THEN (IF ibrion > 6 THEN <<"DFPT">> ELSE <<>>) \o <<"Dielectric">>
       ELSE IF ibrion > 6
       THEN <<"DFPT">>
       ELSE IF Truthy(Get(incar, "LCHIMAG", PyBool(FALSE)))
       THEN <<"NMR Nuclear Shielding">>
       ELSE IF Truthy(Get(incar, "LEFG", PyBool(FALSE)))
       THEN <<"NMR Electric Field Gradient">>
       ELSE IF PyEq(Get(incar, "ISIF", PyInt(2)), PyInt(3)) /\ ibrion > 0
       THEN <<"Structure Optimization">>
       ELSE IF PyEq(Get(incar, "ISIF", PyInt(3)), PyInt(2)) /\ ibrion > 0
       THEN <<"Deformation">>
       ELSE IF PyEq(Get(incar, "NSW", PyInt(1)), PyInt(0))
       THEN <<"Static">>
       ELSE <<>>

\* the list calc_type that the if/elif chain builds
vasp_task_labels(inp) ==
    LET incar == incar_of(inp)
        ibrion == Num(Get(incar, "IBRION", PyInt(0)))
    IN IF Num(Get(incar, "ICHARG", PyInt(0))) > 10
       THEN (IF num_kpt_labels(inp) > 0 THEN <<"NSCF Line">> ELSE <<"NSCF Uniform">>)
       ELSE IF Truthy(Get(incar, "LEPSILON", PyBool(FALSE)))
       THEN (IF ibrion > 6 THEN <<"DFPT">> ELSE <<>>) \o <<"Dielectric">>
       ELSE IF ibrion > 6
       THEN <<"DFPT">>
       ELSE IF Truthy(Get(incar, "LCHIMAG", PyBool(FALSE)))
       THEN <<"NMR Nuclear Shielding">>
       ELSE IF Truthy(Get(incar, "LEFG", PyBool(FALSE)))
       THEN <<"NMR Electric Field Gradient">>
       ELSE IF PyEq(Get(incar, "NSW", PyInt(1)), PyInt(0))
       THEN <<"Static">>
       ELSE IF PyEq(Get(incar, "ISIF", PyInt(2)), PyInt(3)) /\ ibrion > 0
       THEN <<"Structure Optimization">>
       ELSE IF PyEq(Get(incar, "ISIF", PyInt(3)), PyInt(2)) /\ ibrion > 0
       THEN <<"Deformation">>
       ELSE <<>>

vasp_task_type(inp) ==
    IF Num(Get(incar_of(inp), "ICHARG", PyInt(0))) > 10 /\ kpt_labels_fail(inp)
    THEN Raise("Exception")
    ELSE TaskType(Join(" ", vasp_task_labels(inp)))

vasp_calc_type(inp, params) ==
    LET rt == vasp_run_type(params)
        tt == vasp_task_type(inp)
    IN IF Raised(rt) THEN rt
       ELSE IF Raised(tt) THEN tt
       ELSE CalcType(FormatMember(rt) \o " " \o FormatMember(tt))

(***************************************************************************)
(* emmet.core.cp2k.calc_types.utils                                        *)
(***************************************************************************)
\* emmet.core.cp2k.calc_types.enums is not part of the sources at hand; the
\* three enumerations follow the data model of the specification, which gives
\* their values and not their member names: run types are the functional-class
\* and special-type names of the rule table, each also with "+U"; task types
\* are the labels task_type builds, the empty label among them; calc types are
\* "{run type} {task type}".
Cp2kRunTypeValues ==
    LET names == Keys(cp2k_run_type_data) \o NestedKeysFrom(cp2k_run_type_data, 1)
    IN names \o [i \in 1..Len(names) |-> names[i] \o "+U"]

Cp2kRunType(v) == EnumCallByValue("RunType", Cp2kRunTypeValues, v)

\* the if/elif chain of task_type: the Run_type names of each branch and the
\* label the branch appends
Cp2kTaskGroups ==
    << << <<"ENERGY", "ENERGY_FORCE", "WAVEFUNCTION_OPTIMIZATION", "WFN_OPT">>, "Static" >>,
       << <<"GEO_OPT", "GEOMETRY_OPTIMIZATION", "CELL_OPT">>, "Structure Optimization" >>,
       << <<"BAND">>, "Band" >>,
       << <<"MOLECULAR_DYNAMICS", "MD">>, "Molecular Dynamics" >>,
       << <<"MONTE_CARLO", "MC", "TMC", "TAMC">>, "Monte Carlo" >>,
       << <<"LINEAR_RESPONSE", "LR">>, "Linear Response" >>,
       << <<"VIBRATIONAL_ANALYSIS", "NORMAL_MODES">>, "Vibrational Analysis" >>,
       << <<"ELECTRONIC_SPECTRA", "SPECTRA">>, "Electronic Spectra" >>,
       << <<"NEGF">>, "Non-equilibrium Green's Function" >>,
       << <<"PINT", "DRIVER">>, "Path Integral" >>,
       << <<"RT_PROPAGATION", "EHRENFEST_DYN">>, "Real-time propagation" >>,
       << <<"BSSE">>, "Base set superposition error" >>,
       << <<"DEBUG">>, "Debug analysis" >>,
       << <<"NONE">>, "None" >> >>

Cp2kTaskTypeValues ==
    [i \in 1..Len(Cp2kTaskGroups) |-> Cp2kTaskGroups[i][2]] \o <<"">>

Cp2kTaskType(v) == EnumCallByValue("TaskType", Cp2kTaskTypeValues, v)

Cp2kCalcTypeValues ==
    LET rts == Cp2kRunTypeValues
        tts == Cp2kTaskTypeValues
        nt == Len(tts)
    IN [k \in 1..(Len(rts) * nt) |->
            rts[((k - 1) \div nt) + 1] \o " " \o tts[((k - 1) % nt) + 1]]
Cp2kCalcType(v) == EnumCallByValue("CalcType", Cp2kCalcTypeValues, v)

cp2k_is_hubbard(d) == IF Truthy(Get(d, "dft_plus_u", None)) THEN "+U" ELSE ""

\* dft.get('hfx', {})
hfx_of(d) == Get(d, "hfx", PyDict(EmptyDict))

\* len(x) is defined
HasLen(v) == TypeOf(v) \in {"str", "list", "dict"}
PyLen(v) == IF TypeOf(v) = "dict" THEN Cardinality(DOMAIN Val(v)) ELSE Len(Val(v))
\* x[0] of a list or a string
First(v) == IF TypeOf(v) = "list" THEN Val(v)[1] ELSE PyStr(Head(Val(v)))

\* the dict `parameters` run_type builds, a one-element functional unwrapped
cp2k_parameters(d) ==
    LET functional == Get(d, "functional", None)
    IN [FUNCTIONAL |-> IF PyLen(functional) = 1 THEN First(functional) ELSE functional,
        INTERACTION_POTENTIAL |-> Get(Val(hfx_of(d)), "Interaction_Potential", None),
        FRACTION |-> Get(Val(hfx_of(d)), "FRACTION", PyInt(0))]

RECURSIVE cp2k_first_match(_, _)
\* the loops over the rule table in its own order, from the j-th class on:
\* <<class, special type>> of the rule that returns, <<>> when the loops end
cp2k_first_match(given, j) ==
    IF j > Len(cp2k_run_type_data) THEN <<>>
    ELSE LET functional_class == cp2k_run_type_data[j][1]
             hit == first_special_type(cp2k_run_type_data[j][2], given, 1)
         IN IF hit # <<>> THEN <<functional_class, hit[1]>>
            ELSE cp2k_first_match(given, j + 1)

\* the string run_type hands to RunType for the rule that matched
cp2k_label(hit, d) == hit[1] \o cp2k_is_hubbard(d)

cp2k_run_type(d) ==
    IF TypeOf(hfx_of(d)) # "dict" THEN Raise("AttributeError")
    ELSE IF ~HasLen(Get(d, "functional", None)) THEN Raise("TypeError")
    ELSE LET hit == cp2k_first_match(cp2k_parameters(d), 1)
         IN IF hit # <<>>
            THEN Cp2kRunType(cp2k_label(hit, d))
            ELSE ReturnNone

RECURSIVE cp2k_first_group(_, _)
\* the first branch, from the i-th on, whose names hold `name`; 0 when none
cp2k_first_group(name, i) ==
    IF i > Len(Cp2kTaskGroups) THEN 0
    ELSE IF \E k \in 1..Len(Cp2kTaskGroups[i][1]) : Cp2kTaskGroups[i][1][k] = name
    THEN i
    ELSE cp2k_first_group(name, i + 1)

\* (variant: the Run_type trimmed before it is compared)
cp2k_task_labels_trimmed(d) ==
    LET cp2k_run_type_name == Val(Get(d, "Run_type", PyStr("")))
        g == cp2k_first_group(Upper(Strip(cp2k_run_type_name)), 1)
    IN IF g = 0 THEN <<>> ELSE <<Cp2kTaskGroups[g][2]>>

\* the list calc_type that the if/elif chain builds
cp2k_task_labels(d) ==
    LET cp2k_run_type_name == Val(Get(d, "Run_type", PyStr("")))
        g == cp2k_first_group(Upper(cp2k_run_type_name), 1)
    IN IF g = 0 THEN <<>> ELSE <<Cp2kTaskGroups[g][2]>>

cp2k_task_type(d) ==
    IF TypeOf(Get(d, "Run_type", PyStr(""))) # "str" THEN Raise("AttributeError")
    ELSE Cp2kTaskType(Join(" ", cp2k_task_labels(d)))

\* run_type(inputs).value of a run_type that returned None has no .value
cp2k_calc_type(d) ==
    LET rt == cp2k_run_type(d)
        tt == cp2k_task_type(d)
    IN IF Raised(rt) THEN rt
       ELSE IF rt = ReturnNone THEN Raise("AttributeError")
       ELSE IF Raised(tt) THEN tt
       ELSE Cp2kCalcType(rt.value \o " " \o tt.value)

(***************************************************************************)
(* The rule tables and arguments the calls are made with.                  *)
(***************************************************************************)
SeqsUpTo(S, n) == UNION {[1..k -> S] : k \in 0..n}

\* a key that may be absent: no dict, or the dict {key: v}
Optional(key, values) == {EmptyDict} \cup {key :> v : v \in values}

\* A rule table is laid out as its rules in file order, each <<c, params>>
\* with c the position of its class among `classes`; the k-th rule of the
\* c-th class is given the name names[c][k].
Layouts(classes, rule_params) ==
    {f \in SeqsUpTo((1..Len(classes)) \X rule_params, MaxRules) :
        \A i \in 1..Len(f) : \A j \in i..Len(f) : f[i][1] <= f[j][1]}

RulesOfClass(f, c, names) ==
    LET at == SelectSeq([i \in 1..Len(f) |-> i], LAMBDA i : f[i][1] = c)
    IN [k \in 1..Len(at) |-> <<names[c][k], f[at[k]][2]>>]

TableOf(f, classes, names) ==
    [c \in 1..Len(classes) |-> <<classes[c], RulesOfClass(f, c, names)>>]

\* run_types.yaml of VASP: the four classes run_type looks up, in file order
VaspFileClasses == <<"GGA", "HF", "METAGGA", "VDW">>
VaspSpecialTypes ==
    << <<"PBE", "AM05", "PBEsol", "PW91">>,
       <<"HSE06", "PBE0", "B3LYP", "HF">>,
       <<"SCAN", "TPSS", "M06L", "R2SCAN">>,
       <<"optB88", "vdW-DF", "rVV10", "optPBE">> >>
VaspRuleParams ==
    { "GGA" :> PyStr("PE"),
      ("GGA" :> PyStr("PE")) @@ ("LHFCALC" :> PyBool(TRUE)),
      "LDAU" :> PyBool(TRUE) }

VaspTables ==
    {TableOf(f, VaspFileClasses, VaspSpecialTypes) :
        f \in Layouts(VaspFileClasses, VaspRuleParams)}

VaspParameters ==
    {g @@ h @@ u :
        g \in Optional("GGA", {PyStr(" pe"), PyStr("AM")}),
        h \in Optional("LHFCALC", {PyBool(TRUE)}),
        u \in Optional("LDAU", {PyBool(TRUE), PyBool(FALSE)})}

KptLabelLists ==
    SeqsUpTo({None, PyStr("G")}, MaxKptLabels)
        \cup {<<PyStr("G"), PyStr("X"), None, PyStr("M")>>}

VaspKpoints ==
    {None, PyInt(1), PyDict(EmptyDict), PyDict("labels" :> None)}
        \cup {PyDict("labels" :> PyList(l)) : l \in KptLabelLists}

VaspIncars ==
    {a @@ b @@ c @@ d @@ e @@ f @@ g :
        a \in Optional("ICHARG", {PyInt(1), PyInt(11)}),
        b \in Optional("LEPSILON", {PyBool(TRUE)}),
        c \in Optional("IBRION", {PyInt(2), PyInt(8)}),
        d \in Optional("LCHIMAG", {PyBool(TRUE)}),
        e \in Optional("LEFG", {PyBool(TRUE)}),
        f \in Optional("NSW", {PyInt(0)}),
        g \in Optional("ISIF", {PyInt(2), PyInt(3), PyInt(4)})}

\* incars of the ICHARG > 10 branch, the only one that reads the k-points
NscfIncars ==
    {a @@ b @@ f :
        a \in {"ICHARG" :> PyInt(11), "ICHARG" :> PyInt(12)},
        b \in Optional("LEPSILON", {PyBool(TRUE)}),
        f \in Optional("NSW", {PyInt(0)})}

VaspInputs ==
    {i @@ k :
        i \in {EmptyDict} \cup {"incar" :> PyDict(d) : d \in VaspIncars},
        k \in Optional("kpoints", {PyDict("labels" :> PyList(<<PyStr("G")>>))})}
    \cup
    {("incar" :> PyDict(d)) @@ k :
        d \in NscfIncars, k \in Optional("kpoints", VaspKpoints)}

\* run_types.yaml of CP2K
Cp2kFileClasses == <<"GGA", "HYBRID">>
Cp2kSpecialTypes ==
    << <<"PBE", "BLYP", "PBEsol", "PW91">>,
       <<"HSE06", "PBE0", "B3LYP", "HF">> >>
Cp2kRuleParams ==
    { "FUNCTIONAL" :> PyStr("PBE"),
      ("FUNCTIONAL" :> PyStr("PBE")) @@ ("INTERACTION_POTENTIAL" :> PyStr("TRUNCATED"))
          @@ ("FRACTION" :> PyInt(1)),
      "FUNCTIONAL" :> PyList(<<PyStr("PBE"), PyStr("HF")>>) }

Cp2kTables ==
    {TableOf(f, Cp2kFileClasses, Cp2kSpecialTypes) :
        f \in Layouts(Cp2kFileClasses, Cp2kRuleParams)}

Cp2kFunctionals ==
    { PyStr("PBE"), PyList(<<PyStr(" pbe")>>), PyList(<<PyStr("PBE"), PyStr("HF")>>),
      PyList(<<PyStr("BLYP")>>) }

Cp2kHfx ==
    { None, PyDict(EmptyDict),
      PyDict(("Interaction_Potential" :> PyStr("truncated")) @@ ("FRACTION" :> PyInt(1))) }

\* the dft mappings run_type is tried on
Cp2kDfts ==
    {f @@ h @@ u :
        f \in Optional("functional", Cp2kFunctionals),
        h \in Optional("hfx", Cp2kHfx),
        u \in Optional("dft_plus_u", {PyBool(TRUE), PyBool(FALSE)})}

RECURSIVE GroupNamesFrom(_)
GroupNamesFrom(i) ==
    IF i > Len(Cp2kTaskGroups) THEN {}
    ELSE {Cp2kTaskGroups[i][1][k] : k \in 1..Len(Cp2kTaskGroups[i][1])}
             \cup GroupNamesFrom(i + 1)

\* Run_type strings: every name of every branch, and spellings of some
Cp2kRunTypeNames ==
    GroupNamesFrom(1) \cup
    {"geo_opt", "Cell_Opt", "md", "energy", "wfn_opt", " MD", "GEO_OPT ", "geo opt",
     "", "RELAX", "none", "Band"}

\* the inputs task_type is tried on
Cp2kTaskInputs ==
    {r @@ f @@ u :
        r \in Optional("Run_type", {PyStr(n) : n \in Cp2kRunTypeNames}),
        f \in Optional("functional", {PyStr("PBE")}),
        u \in Optional("dft_plus_u", {PyBool(TRUE)})}

DefaultVaspTable ==
    << <<"GGA", << <<"PBE", "GGA" :> PyStr("PE")>> >> >>,
       <<"HF", << <<"HSE06", "LHFCALC" :> PyBool(TRUE)>> >> >>,
       <<"METAGGA", << >> >>,
       <<"VDW", << >> >> >>
DefaultParameters == "GGA" :> PyStr("PE")
DefaultInputs == "incar" :> PyDict("NSW" :> PyInt(0))
DefaultCp2kTable == << <<"GGA", << <<"PBE", "FUNCTIONAL" :> PyStr("PBE")>> >> >> >>
DefaultDft == ("functional" :> PyStr("PBE")) @@ ("Run_type" :> PyStr("ENERGY"))

(***************************************************************************)
(* The state machine: one call of one of the six functions.                *)
(***************************************************************************)
Init ==
    /\ call = "none"
    /\ result = NoResult
    /\ \/ /\ run_type_data \in VaspTables
          /\ parameters \in VaspParameters
          /\ inputs = DefaultInputs
          /\ cp2k_run_type_data = DefaultCp2kTable
          /\ dft = DefaultDft
       \/ /\ run_type_data = DefaultVaspTable
          /\ parameters = DefaultParameters
          /\ inputs \in VaspInputs
          /\ cp2k_run_type_data = DefaultCp2kTable
          /\ dft = DefaultDft
       \/ /\ run_type_data = DefaultVaspTable
          /\ parameters = DefaultParameters
          /\ inputs = DefaultInputs
          /\ cp2k_run_type_data \in Cp2kTables
          /\ dft \in Cp2kDfts
       \/ /\ run_type_data = DefaultVaspTable
          /\ parameters = DefaultParameters
          /\ inputs = DefaultInputs
          /\ cp2k_run_type_data = DefaultCp2kTable
          /\ dft \in Cp2kTaskInputs

Args == <<run_type_data, parameters, inputs, cp2k_run_type_data, dft>>

CallVaspRunType ==
    /\ call = "none"
    /\ call' = "vasp.run_type"
    /\ result' = vasp_run_type(parameters)
    /\ UNCHANGED Args

CallVaspTaskType ==
    /\ call = "none"
    /\ call' = "vasp.task_type"
    /\ result' = vasp_task_type(inputs)
    /\ UNCHANGED Args

CallVaspCalcType ==
    /\ call = "none"
    /\ call' = "vasp.calc_type"
    /\ result' = vasp_calc_type(inputs, parameters)
    /\ UNCHANGED Args

CallCp2kRunType ==
    /\ call = "none"
    /\ call' = "cp2k.run_type"
    /\ result' = cp2k_run_type(dft)
    /\ UNCHANGED Args

CallCp2kTaskType ==
    /\ call = "none"
    /\ call' = "cp2k.task_type"
    /\ result' = cp2k_task_type(dft)
    /\ UNCHANGED Args

CallCp2kCalcType ==
    /\ call = "none"
    /\ call' = "cp2k.calc_type"
    /\ result' = cp2k_calc_type(dft)
    /\ UNCHANGED Args

Next ==
    \/ CallVaspRunType
    \/ CallVaspTaskType
    \/ CallVaspCalcType
    \/ CallCp2kRunType
    \/ CallCp2kTaskType
    \/ CallCp2kCalcType

Spec == Init /\ [][Next]_vars

(***************************************************************************)
(* Properties.  The vocabulary below restates the rules declaratively: the *)
(* rules of a table as positions <<c, k>> (k-th rule of the c-th class of  *)
(* the file), and "the first rule that applies" as the least applicable    *)
(* position in a stated order, with no loop.                               *)
(***************************************************************************)
RuleIds(table) ==
    UNION {{<<c, k>> : k \in 1..Len(table[c][2])} : c \in 1..Len(table)}
ClassOf(table, id) == table[id[1]][1]
SpecialOf(table, id) == table[id[1]][2][id[2]][1]
ParamsOf(table, id) == table[id[1]][2][id[2]][2]

\* every parameter the rule requires is matched by the given mapping, a
\* parameter the mapping lacks standing for None
RuleApplies(params, given) ==
    \A p \in DOMAIN params :
        variant_equal(IF p \in DOMAIN given THEN given[p] ELSE None, params[p])

Applicable(table, given) ==
    {id \in RuleIds(table) : RuleApplies(ParamsOf(table, id), given)}

\* HF > VDW > METAGGA > GGA
Priority(class) ==
    CASE class = "HF" -> 1
      [] class = "VDW" -> 2
      [] class = "METAGGA" -> 3
      [] class = "GGA" -> 4

\* a comes no later than b: an earlier class, or the same class and no later
\* in the table
VaspNoLater(table, a, b) ==
    \/ Priority(ClassOf(table, a)) < Priority(ClassOf(table, b))
    \/ a[1] = b[1] /\ a[2] <= b[2]

\* a comes no later than b in the order of the file
FileNoLater(a, b) == a[1] < b[1] \/ (a[1] = b[1] /\ a[2] <= b[2])

LdauSet(params) == "LDAU" \in DOMAIN params /\ Truthy(params["LDAU"])
Suffix(set) == IF set THEN "+U" ELSE ""

Without(d, key) == [k \in DOMAIN d \ {key} |-> d[k]]

\* the mappings that differ from params in the LDAU flag alone, the flag
\* cleared: absent, or False
LdauCleared(params) ==
    {Without(params, "LDAU"), Without(params, "LDAU") @@ ("LDAU" :> PyBool(FALSE))}

\* C1: VASP run_type returns the special type (with the Hubbard suffix) of
\* the first applicable rule, the classes taken in the order HF, VDW,
\* METAGGA, GGA and the rules of a class in table order; so an HF-class rule
\* wins over a GGA-class rule that applies too.
C1_VaspClassPriority ==
    call = "vasp.run_type" =>
        LET applicable == Applicable(run_type_data, parameters)
        IN \A a \in applicable :
            (\A b \in applicable : VaspNoLater(run_type_data, a, b))
            => /\ Returned(result)
               /\ result.type = "RunType"
               /\ result.value =
                      SpecialOf(run_type_data, a) \o Suffix(LdauSet(parameters))

\* C1 happens: an HF-class rule and a GGA-class rule both apply, and the
\* HF-class special type was returned.
C1_Witness ==
    /\ call = "vasp.run_type"
    /\ \E a, b \in Applicable(run_type_data, parameters) :
           /\ ClassOf(run_type_data, a) = "HF"
           /\ ClassOf(run_type_data, b) = "GGA"
           /\ result.value = SpecialOf(run_type_data, a) \o Suffix(LdauSet(parameters))
           /\ result.value # SpecialOf(run_type_data, b) \o Suffix(LdauSet(parameters))

\* C2: when no rule of any class applies, VASP run_type returns "LDA" if the
\* LDAU flag is absent or false and "LDA+U" if it is set, and does not raise.
C2_VaspFallback ==
    (call = "vasp.run_type" /\ Applicable(run_type_data, parameters) = {}) =>
        /\ Returned(result)
        /\ result.type = "RunType"
        /\ result.value = (IF LdauSet(parameters) THEN "LDA+U" ELSE "LDA")

\* C2 happens: a table with rules, none of which applies, the flag set.
C2_Witness ==
    /\ call = "vasp.run_type"
    /\ RuleIds(run_type_data) # {}
    /\ Applicable(run_type_data, parameters) = {}
    /\ LdauSet(parameters)
    /\ result.value = "LDA+U"

\* the flag toggled: the run type with the flag set is the run type with the
\* flag cleared plus "+U", and the same rule is selected
ToggleAppendsU ==
    \A other \in LdauCleared(parameters) :
        /\ Returned(result)
        /\ Returned(vasp_run_type(other))
        /\ result.value = vasp_run_type(other).value \o "+U"
        /\ vasp_first_match(parameters, 1) = vasp_first_match(other, 1)

NoRuleRequiresLdau ==
    \A id \in RuleIds(run_type_data) : "LDAU" \notin DOMAIN ParamsOf(run_type_data, id)

\* C3 as stated: for any two parameter mappings that differ only in the LDAU
\* flag, run_type with the flag set is run_type with the flag cleared plus
\* "+U", the same rule selected in both.
C3_HubbardSuffixAnyTable ==
    (call = "vasp.run_type" /\ LdauSet(parameters)) => ToggleAppendsU

\* C3 amended: the same, for rule tables in which no rule requires LDAU.
C3_HubbardSuffix ==
    (call = "vasp.run_type" /\ LdauSet(parameters) /\ NoRuleRequiresLdau)
        => ToggleAppendsU

\* C3 happens: a rule applies with the flag set, no rule requires LDAU, and
\* the label is the special type plus "+U".
C3_Witness ==
    /\ call = "vasp.run_type"
    /\ LdauSet(parameters)
    /\ NoRuleRequiresLdau
    /\ \E a \in Applicable(run_type_data, parameters) :
           result.value = SpecialOf(run_type_data, a) \o "+U"
    /\ ToggleAppendsU

\* C4: when run_type and task_type both succeed, VASP calc_type succeeds and
\* its value is the run-type label, a space, and the task-type label.
C4_VaspCalcTypeComposes ==
    (/\ call = "vasp.calc_type"
     /\ Returned(vasp_run_type(parameters))
     /\ Returned(vasp_task_type(inputs)))
    => /\ Returned(result)
       /\ result.value =
              vasp_run_type(parameters).value \o " " \o vasp_task_type(inputs).value

\* the INCAR flags as the branches of task_type read them
IncarOf(inp) == IF "incar" \in DOMAIN inp THEN Val(inp["incar"]) ELSE EmptyDict
FlagSet(inp, key) == key \in DOMAIN IncarOf(inp) /\ Truthy(IncarOf(inp)[key])
NumberOr(inp, key, default) ==
    IF key \in DOMAIN IncarOf(inp) THEN Num(IncarOf(inp)[key]) ELSE default
NumberIs(inp, key, n) == key \in DOMAIN IncarOf(inp) /\ Num(IncarOf(inp)[key]) = n

\* the conditions of the branches, in the order they are examined
BranchHolds(inp) ==
    << NumberOr(inp, "ICHARG", 0) > 10,
       FlagSet(inp, "LEPSILON"),
       NumberOr(inp, "IBRION", 0) > 6,
       FlagSet(inp, "LCHIMAG"),
       FlagSet(inp, "LEFG"),
       NumberIs(inp, "NSW", 0),
       NumberIs(inp, "ISIF", 3) /\ NumberOr(inp, "IBRION", 0) > 0,
       NumberIs(inp, "ISIF", 2) /\ NumberOr(inp, "IBRION", 0) > 0 >>

\* the labels each branch can give
BranchLabels ==
    << {"NSCF Line", "NSCF Uniform"},
       {"Dielectric", "DFPT Dielectric"},
       {"DFPT"},
       {"NMR Nuclear Shielding"},
       {"NMR Electric Field Gradient"},
       {"Static"},
       {"Structure Optimization"},
       {"Deformation"} >>

FirstBranch(inp, n) ==
    BranchHolds(inp)[n] /\ \A m \in 1..(n - 1) : ~BranchHolds(inp)[m]

\* kpoints is missing, null or a mapping whose labels are missing, null or a list
KpointsReadable(inp) ==
    \/ "kpoints" \notin DOMAIN inp
    \/ inp["kpoints"] = None
    \/ /\ TypeOf(inp["kpoints"]) = "dict"
       /\ \/ "labels" \notin DOMAIN Val(inp["kpoints"])
          \/ TypeOf(Val(inp["kpoints"])["labels"]) \in {"NoneType", "list"}

\* the k-point label list, empty when there is none
LabelsGiven(inp) ==
    IF /\ "kpoints" \in DOMAIN inp
       /\ TypeOf(inp["kpoints"]) = "dict"
       /\ "labels" \in DOMAIN Val(inp["kpoints"])
       /\ TypeOf(Val(inp["kpoints"])["labels"]) = "list"
    THEN Val(Val(inp["kpoints"])["labels"])
    ELSE <<>>

\* C5: the branches of VASP task_type are examined in the order ICHARG > 10,
\* LEPSILON, IBRION > 6, LCHIMAG, LEFG, NSW == 0, ISIF == 3 with IBRION > 0,
\* ISIF == 2 with IBRION > 0, and the first that holds alone decides the
\* label; so NSW == 0 with no earlier branch holding gives "Static" whatever
\* ISIF and IBRION are.
C5_VaspTaskFirstMatch ==
    call = "vasp.task_type" =>
        \A n \in 1..Len(BranchLabels) :
            (FirstBranch(inputs, n) /\ (n = 1 => KpointsReadable(inputs)))
            => /\ Returned(result)
               /\ result.type = "TaskType"
               /\ result.value \in BranchLabels[n]

\* C5 happens: NSW == 0 together with ISIF == 3 and IBRION > 0, no earlier
\* branch holding, gave "Static".
C5_Witness ==
    /\ call = "vasp.task_type"
    /\ FirstBranch(inputs, 6)
    /\ BranchHolds(inputs)[7]
    /\ result.value = "Static"

\* C6: with ICHARG > 10, VASP task_type gives "NSCF Line" if the k-point
\* label list holds a non-null entry and "NSCF Uniform" otherwise (labels all
\* null, empty, missing or null, kpoints missing or null), whatever the other
\* INCAR flags are.
C6_VaspNscfSplit ==
    (/\ call = "vasp.task_type"
     /\ NumberOr(inputs, "ICHARG", 0) > 10
     /\ KpointsReadable(inputs))
    => /\ Returned(result)
       /\ result.value =
              (IF \E i \in 1..Len(LabelsGiven(inputs)) : LabelsGiven(inputs)[i] # None
               THEN "NSCF Line"
               ELSE "NSCF Uniform")

\* C6 happens: ICHARG 11 with the labels ["G", "X", None, "M"] gave "NSCF Line".
C6_Witness ==
    /\ call = "vasp.task_type"
    /\ NumberIs(inputs, "ICHARG", 11)
    /\ LabelsGiven(inputs) = <<PyStr("G"), PyStr("X"), None, PyStr("M")>>
    /\ result.value = "NSCF Line"

\* the hfx entry is missing or a mapping
HfxReadable(d) == "hfx" \notin DOMAIN d \/ TypeOf(d["hfx"]) = "dict"

\* the parameters CP2K run_type compares, an absent functional standing for None
Cp2kCompared(d) ==
    IF "functional" \in DOMAIN d THEN cp2k_parameters(d)
    ELSE [FUNCTIONAL |-> None,
          INTERACTION_POTENTIAL |-> Get(Val(hfx_of(d)), "Interaction_Potential", None),
          FRACTION |-> Get(Val(hfx_of(d)), "FRACTION", PyInt(0))]

PlusUSet(d) == "dft_plus_u" \in DOMAIN d /\ Truthy(d["dft_plus_u"])

\* C7: CP2K run_type returns the special-type name of the first applicable
\* rule (classes and special types in the order of the table), with the
\* Hubbard suffix, as VASP run_type does.
C7_Cp2kSpecialTypeLabel ==
    (call = "cp2k.run_type" /\ "functional" \in DOMAIN dft /\ HfxReadable(dft)) =>
        LET applicable == Applicable(cp2k_run_type_data, Cp2kCompared(dft))
        IN \A a \in applicable :
            (\A b \in applicable : FileNoLater(a, b))
            => /\ Returned(result)
               /\ result.value = SpecialOf(cp2k_run_type_data, a) \o Suffix(PlusUSet(dft))

GroupNames(g) == {Cp2kTaskGroups[g][1][k] : k \in 1..Len(Cp2kTaskGroups[g][1])}

C9_VaspNoBranchEmptyLabel ==
    (call = "vasp.task_type" /\ \A n \in 1..Len(BranchLabels) : ~BranchHolds(inputs)[n])
    => /\ Returned(result)
       /\ result.value = ""

\* C10: a parameter a rule requires and the input lacks, an absent CP2K
\* functional included, is compared as None; run_type does not raise, and
\* when no rule applies it ends with "LDA"(+U) for VASP and with the unset
\* result for CP2K.
C10_AbsentParametersNoRaise ==
    /\ call = "vasp.run_type" =>
           /\ ~Raised(result)
           /\ Applicable(run_type_data, parameters) = {}
                  => result.value \in {"LDA", "LDA+U"}
    /\ (call = "cp2k.run_type" /\ HfxReadable(dft)) =>
           /\ ~Raised(result)
           /\ Applicable(cp2k_run_type_data, Cp2kCompared(dft)) = {}
                  => result = ReturnNone

====
